---- MODULE Spec2Model ----
(***************************************************************************)
(* Derivation engine of the Meteor Madness backend (backend/server.py):    *)
(*   - get_dashboard_statistics : the batch fold over the NASA feed        *)
(*   - parse_asteroid_summary   : one raw record -> AsteroidSummary        *)
(*   - calculate_impact_simulation : the energy computed from diameter and *)
(*                                   velocity, the damage tier chosen      *)
(*   - api_router               : the dispatch of a request to an endpoint *)
(*                                                                         *)
(* Units.  Diameters are in thousandths of a km, miss distances in km,     *)
(* velocities in km/h.  A value rounded to two decimals is held as its     *)
(* number of hundredths, one rounded to three decimals as its number of    *)
(* thousandths.  A dict lookup d.get(k) is an option: None == <<>> when    *)
(* the key is absent, Some(v) == <<v>> when present.  The two-level        *)
(* lookups x.get("miss_distance", {}).get("kilometers", dflt) are one      *)
(* option: absent at either level gives the same default.                  *)
(***************************************************************************)
EXTENDS Integers, Sequences, FiniteSets, TLC

\* ------------------------------------------------------------------ bounds
MaxDays    == 2   \* days in the feed
MaxRecords == 2   \* records in the whole batch
MaxEvents  == 2   \* close-approach events of one record
Spread     == 12  \* energies tried on each side of a threshold, in 1/1000 Mt

\* ------------------------------------------------------- JSON value model
None    == <<>>
Some(v) == <<v>>
Get(o, dflt) == IF o = None THEN dflt ELSE o[1]

JNull   == [t |-> "null"]
JNum(n) == [t |-> "num", v |-> n]
JStr(s) == [t |-> "str", s |-> s]

Digit == [c \in {"0", "1", "2", "3", "4", "5", "6", "7", "8", "9"} |->
            CASE c = "0" -> 0 [] c = "1" -> 1 [] c = "2" -> 2 [] c = "3" -> 3
              [] c = "4" -> 4 [] c = "5" -> 5 [] c = "6" -> 6 [] c = "7" -> 7
              [] c = "8" -> 8 [] c = "9" -> 9]

RECURSIVE DigitsValue(_, _)
DigitsValue(s, k) ==
    IF k = 0 THEN 0 ELSE 10 * DigitsValue(s, k - 1) + Digit[s[k]]

\* Python float(x): a number is itself, a string is parsed, anything else
\* (None, a non-numeric string) raises.  None here == "raised".
Float(x) ==
    CASE x.t = "num" -> Some(x.v)
      [] x.t = "str" -> IF Len(x.s) > 0 /\ \A k \in 1..Len(x.s) : x.s[k] \in DOMAIN Digit
                        THEN Some(DigitsValue(x.s, Len(x.s)))
                        ELSE None
      [] OTHER       -> None

\* Floats that may be float('inf').
PosInf  == [inf |-> TRUE,  v |-> 0]
Fin(n)  == [inf |-> FALSE, v |-> n]
FLt(a, b) == ~a.inf /\ (b.inf \/ a.v < b.v)

\* round(num/den, 2) of a non-negative quotient, as a number of hundredths
\* (ties to even, as Python rounds).
Round2(num, den) ==
    LET q == (100 * num) \div den
        r == (100 * num) % den
    IN  IF 2 * r > den \/ (2 * r = den /\ q % 2 = 1) THEN q + 1 ELSE q

\* ------------------------------------------------------------- the inputs
S500   == <<"5", "0", "0">>
S1000  == <<"1", "0", "0", "0">>
SNoNum == <<"n", "/", "a">>
S0     == <<"0">>
S36000 == <<"3", "6", "0", "0", "0">>
S72000 == <<"7", "2", "0", "0", "0">>

Dates == <<"2025-01-01", "2025-01-02", "2025-01-03">>

\* (name, hazard flag) of a record: both absent, or a named object.
Idents == { [name |-> None, haz |-> None],
            [name |-> Some("Apophis"), haz |-> Some(TRUE)],
            [name |-> Some("Bennu"), haz |-> Some(FALSE)] }

NoDiameter == [min |-> None, max |-> None]
FoldDiameters ==
    { NoDiameter,
      [min |-> Some(JNum(40)), max |-> None],
      [min |-> None, max |-> Some(JNull)] }
    \cup { [min |-> None, max |-> Some(JNum(d))] : d \in {0, 50, 100, 500, 1000} }

\* What one event says of distance and velocity; a dated event carries the
\* date of its place in the record's list (an object's approaches fall on
\* distinct days).  Besides the well-formed readings: a miss distance that is
\* no number, an event without a miss distance, and the empty event {}.
Readings ==
    { [miss |-> Some(JStr(m)), vel |-> Some(JStr(v)), dated |-> TRUE]
        : m \in {S500, S1000}, v \in {S0, S36000, S72000} }
    \cup { [miss |-> Some(JStr(SNoNum)), vel |-> Some(JStr(S72000)), dated |-> TRUE],
           [miss |-> None, vel |-> Some(JStr(S36000)), dated |-> TRUE],
           [miss |-> None, vel |-> None, dated |-> FALSE] }

EventAt(rd, k) ==
    [miss |-> rd.miss, vel |-> rd.vel,
     date |-> IF rd.dated THEN Some(Dates[k]) ELSE None]

EventLists ==
    UNION { { [k \in 1..n |-> EventAt(f[k], k)] : f \in [1..n -> Readings] }
            : n \in 0..MaxEvents }

Rec(ident, diam, events) ==
    [id |-> Some("3542519"), name |-> ident.name, haz |-> ident.haz,
     diam |-> diam, events |-> events]

\* The records of a feed: a record varies in its size fields or in its
\* close-approach events.
FoldRecords ==
    { Rec(i, d, <<>>) : i \in Idents, d \in FoldDiameters }
    \cup { Rec(i, NoDiameter, ev) : i \in Idents, ev \in EventLists }

RECURSIVE SumTo(_, _)
SumTo(sh, k) == IF k = 0 THEN 0 ELSE SumTo(sh, k - 1) + sh[k]

\* Day lengths of a feed: at most MaxDays days holding at most MaxRecords
\* records in all.
Shapes ==
    { sh \in UNION { [1..k -> 0..MaxRecords] : k \in 0..MaxDays }
        : SumTo(sh, Len(sh)) <= MaxRecords }

Split(flat, sh) ==
    [d \in 1..Len(sh) |-> [i \in 1..sh[d] |-> flat[SumTo(sh, d - 1) + i]]]

\* data["near_earth_objects"]: the days in iteration order, each a list of
\* records.
IsBatch(d) ==
    \E sh \in Shapes :
        \E flat \in [1..SumTo(sh, Len(sh)) -> FoldRecords] : d = Split(flat, sh)

\* ------------------------------------------------------------------ state
VARIABLES
    data,              \* the fetched feed (get_dashboard_statistics)
    pc,                \* "loop", "done" (result returned), "error" (HTTP 500)
    day,               \* days entered so far
    pos,               \* records of the current day already folded
    total_asteroids,
    hazardous_count,
    size_categories,
    closest_approach,
    fastest_asteroid,
    largest_asteroid,
    result,            \* the returned dict, None until returned
    asteroid_data,     \* the argument of parse_asteroid_summary
    ppc,               \* "call", "returned", "raised"
    summary,           \* the AsteroidSummary returned, None until then
    energy_megatons,   \* calculate_impact_simulation: the energy, in 1/1000 Mt
    ipc,               \* "call", "returned"
    damage_level,      \* damage_assessment["overall"], None until chosen
    params,            \* the SimulationInput of calculate_impact_simulation
    spc,               \* "call", "returned"
    simulation,        \* the SimulationResult returned, None until then
    request,           \* an HTTP request: method and path below /api
    rpc,               \* "received", "dispatched"
    handler            \* the endpoint function the router chose, None until then

foldVars == <<data, pc, day, pos, total_asteroids, hazardous_count, size_categories,
              closest_approach, fastest_asteroid, largest_asteroid, result>>

parseVars == <<asteroid_data, ppc, summary>>

impactVars == <<energy_megatons, ipc, damage_level>>

simVars == <<params, spc, simulation>>

routeVars == <<request, rpc, handler>>

vars == <<foldVars, parseVars, impactVars, simVars, routeVars>>

\* ------------------------------------------- get_dashboard_statistics fold
SmallBelow     == 100    \* max_diameter < 0.1
MediumBelow    == 500    \* max_diameter < 0.5
LargeBelow     == 1000   \* max_diameter < 1.0
LunarDistance  == 384400
SecondsPerHour == 3600

Categories == {"small", "medium", "large", "very_large", "unknown"}

IsHazardous(asteroid) == Get(asteroid.haz, FALSE)

NameOf(asteroid) == Get(asteroid.name, "Unknown")

\* if diameter_data: a dict is true when it has a key.
HasDiameterData(asteroid) == asteroid.diam # NoDiameter

\* diameter_data.get("estimated_diameter_max", 0)
MaxDiameterValue(asteroid) == Get(asteroid.diam.max, JNum(0))

\* The comparisons of max_diameter raise TypeError on None.
DiameterRaises(asteroid) ==
    HasDiameterData(asteroid) /\ MaxDiameterValue(asteroid).t # "num"

SizeCategory(max_diameter) ==
    IF max_diameter < SmallBelow THEN "small"
    ELSE IF max_diameter < MediumBelow THEN "medium"
    ELSE IF max_diameter < LargeBelow THEN "large"
    ELSE "very_large"

\* Mutant of CountSize: the final else branch is missing.
CountSizeNoElse(asteroid, categories) ==
    IF HasDiameterData(asteroid)
    THEN [categories EXCEPT ![SizeCategory(MaxDiameterValue(asteroid).v)] = @ + 1]
    ELSE categories

\* The if / elif / else chain of the size categorization: one bucket += 1.
CountSize(asteroid, categories) ==
    IF HasDiameterData(asteroid)
    THEN [categories EXCEPT ![SizeCategory(MaxDiameterValue(asteroid).v)] = @ + 1]
    ELSE [categories EXCEPT !["unknown"] = @ + 1]

CountHazardous(asteroid, count) ==
    IF IsHazardous(asteroid) THEN count + 1 ELSE count

LargerThan(max_diameter, best) == max_diameter > best

TrackLargest(asteroid, largest) ==
    IF HasDiameterData(asteroid)
       /\ LargerThan(MaxDiameterValue(asteroid).v, largest.diameter)
    THEN [diameter |-> MaxDiameterValue(asteroid).v,
          name |-> NameOf(asteroid),
          is_hazardous |-> IsHazardous(asteroid)]
    ELSE largest

\* float(approach.get("miss_distance", {}).get("kilometers", float('inf')))
\* None == the conversion raised.
DistanceKm(approach) ==
    IF approach.miss = None THEN Some(PosInf)
    ELSE LET f == Float(approach.miss[1])
         IN  IF f = None THEN None ELSE Some(Fin(f[1]))

\* float(approach.get("relative_velocity", {}).get("kilometers_per_hour", 0))
VelocityKmh(approach) == Float(Get(approach.vel, JNum(0)))

ApproachRaises(approach) ==
    DistanceKm(approach) = None \/ VelocityKmh(approach) = None

\* Mutant of CloserThan: the comparison is turned around.
CloserThanFlipped(distance_km, best) == FLt(best, distance_km)

CloserThan(distance_km, best) == FLt(distance_km, best)

\* Mutant of FasterThan: an equal velocity replaces the tracker as well.
FasterOrEqual(velocity_kmh, best) == velocity_kmh >= best

FasterThan(velocity_kmh, best) == velocity_kmh > best

TrackClosest(asteroid, approach, closest) ==
    IF CloserThan(DistanceKm(approach)[1], closest.distance)
    THEN [distance |-> DistanceKm(approach)[1],
          name |-> NameOf(asteroid),
          date |-> Get(approach.date, ""),
          is_hazardous |-> IsHazardous(asteroid)]
    ELSE closest

TrackFastest(asteroid, approach, fastest) ==
    IF FasterThan(VelocityKmh(approach)[1], fastest.velocity)
    THEN [velocity |-> VelocityKmh(approach)[1],
          name |-> NameOf(asteroid),
          date |-> Get(approach.date, "")]
    ELSE fastest

\* for approach in asteroid.get("close_approach_data", []): the trackers
\* after the first k events (none of which raised).
RECURSIVE ClosestAfter(_, _, _)
ClosestAfter(asteroid, k, closest) ==
    IF k = 0 THEN closest
    ELSE TrackClosest(asteroid, asteroid.events[k], ClosestAfter(asteroid, k - 1, closest))

RECURSIVE FastestAfter(_, _, _)
FastestAfter(asteroid, k, fastest) ==
    IF k = 0 THEN fastest
    ELSE TrackFastest(asteroid, asteroid.events[k], FastestAfter(asteroid, k - 1, fastest))

\* The body of the loop raises on this record (nothing catches it before
\* the handler's own except clause).
RecordRaises(asteroid) ==
    IF DiameterRaises(asteroid) THEN TRUE
    ELSE \E k \in 1..Len(asteroid.events) : ApproachRaises(asteroid.events[k])

\* round(x, 2) and round(x / den, 2) of a float that may be inf: inf stays inf.
RoundInf2(x, den) == IF x.inf THEN PosInf ELSE Fin(Round2(x.v, den))

\* round(hazardous_count / total_asteroids * 100, 2): the division raises
\* ZeroDivisionError on a zero total (None == raised).
Percentage(hazardous, total) ==
    IF total = 0 THEN None ELSE Some(Round2(100 * hazardous, total))

\* Mutant of HazardousPercentage: the guard is missing.
HazardousPercentageUnguarded(hazardous, total) == Percentage(hazardous, total)

\* ... if total_asteroids > 0 else 0
HazardousPercentage(hazardous, total) ==
    IF total > 0 THEN Percentage(hazardous, total) ELSE Some(0)

BuildResult ==
    [total_asteroids      |-> total_asteroids,
     hazardous_asteroids  |-> hazardous_count,
     hazardous_percentage |-> HazardousPercentage(hazardous_count, total_asteroids)[1],
     size_distribution    |-> size_categories,
     closest_approach     |->
        [distance_km    |-> RoundInf2(closest_approach.distance, 1),
         distance_lunar |-> RoundInf2(closest_approach.distance, LunarDistance),
         name           |-> closest_approach.name,
         date           |-> closest_approach.date,
         is_hazardous   |-> closest_approach.is_hazardous],
     fastest_asteroid     |->
        [velocity_kmh |-> Round2(fastest_asteroid.velocity, 1),
         velocity_kms |-> Round2(fastest_asteroid.velocity, SecondsPerHour),
         name         |-> fastest_asteroid.name,
         date         |-> fastest_asteroid.date],
     largest_asteroid     |->
        [diameter_km  |-> largest_asteroid.diameter,
         name         |-> largest_asteroid.name,
         is_hazardous |-> largest_asteroid.is_hazardous]]

InitialClosest == [distance |-> PosInf, name |-> "", date |-> "", is_hazardous |-> FALSE]
InitialFastest == [velocity |-> 0, name |-> "", date |-> ""]
InitialLargest == [diameter |-> 0, name |-> "", is_hazardous |-> FALSE]

\* The accumulators as lines 552-557 set them.
FoldStart ==
    /\ day = 0
    /\ pos = 0
    /\ total_asteroids = 0
    /\ hazardous_count = 0
    /\ size_categories = [c \in Categories |-> 0]
    /\ closest_approach = InitialClosest
    /\ fastest_asteroid = InitialFastest
    /\ largest_asteroid = InitialLargest
    /\ result = None

FoldInit == IsBatch(data) /\ pc = "loop" /\ FoldStart

\* The other two functions are not called in a run of the fold.
FoldIdle == data = <<>> /\ pc = "idle" /\ FoldStart

ParseIdle == asteroid_data = None /\ ppc = "idle" /\ summary = None

ImpactIdle == energy_megatons = 0 /\ ipc = "idle" /\ damage_level = None

SimulationIdle == params = None /\ spc = "idle" /\ simulation = None

RouteIdle == request = None /\ rpc = "idle" /\ handler = None

\* What a run of one function leaves alone of the others.
OthersIdle == SimulationIdle /\ RouteIdle

DayDone == IF day = 0 THEN TRUE ELSE pos = Len(data[day])

\* for date_key, daily_asteroids in ...items(): total_asteroids += len(daily_asteroids)
EnterDay ==
    /\ pc = "loop"
    /\ DayDone
    /\ day < Len(data)
    /\ day' = day + 1
    /\ pos' = 0
    /\ total_asteroids' = total_asteroids + Len(data[day + 1])
    /\ UNCHANGED <<data, pc, hazardous_count, size_categories, closest_approach,
                   fastest_asteroid, largest_asteroid, result>>
    /\ UNCHANGED <<parseVars, impactVars, simVars, routeVars>>

\* One pass of "for asteroid in daily_asteroids" that raises nothing.
FoldRecord ==
    /\ pc = "loop"
    /\ ~DayDone
    /\ LET asteroid == data[day][pos + 1] IN
        /\ ~RecordRaises(asteroid)
        /\ hazardous_count' = CountHazardous(asteroid, hazardous_count)
        /\ size_categories' = CountSize(asteroid, size_categories)
        /\ largest_asteroid' = TrackLargest(asteroid, largest_asteroid)
        /\ closest_approach' =
              ClosestAfter(asteroid, Len(asteroid.events), closest_approach)
        /\ fastest_asteroid' =
              FastestAfter(asteroid, Len(asteroid.events), fastest_asteroid)
    /\ pos' = pos + 1
    /\ UNCHANGED <<data, pc, day, total_asteroids, result>>
    /\ UNCHANGED <<parseVars, impactVars, simVars, routeVars>>

\* One pass that raises (TypeError / ValueError): the except clause of the
\* handler turns it into HTTP 500; the accumulators are dropped with the frame.
FoldRaises ==
    /\ pc = "loop"
    /\ ~DayDone
    /\ RecordRaises(data[day][pos + 1])
    /\ pc' = "error"
    /\ UNCHANGED <<data, day, pos, total_asteroids, hazardous_count, size_categories,
                   closest_approach, fastest_asteroid, largest_asteroid, result>>
    /\ UNCHANGED <<parseVars, impactVars, simVars, routeVars>>

\* After the last day: build and return the result (HTTP 500 if building
\* it raises).
Finish ==
    /\ pc = "loop"
    /\ DayDone
    /\ day = Len(data)
    /\ IF HazardousPercentage(hazardous_count, total_asteroids) = None
       THEN pc' = "error" /\ result' = result
       ELSE pc' = "done" /\ result' = Some(BuildResult)
    /\ UNCHANGED <<data, day, pos, total_asteroids, hazardous_count, size_categories,
                   closest_approach, fastest_asteroid, largest_asteroid>>
    /\ UNCHANGED <<parseVars, impactVars, simVars, routeVars>>

Init == FoldInit /\ ParseIdle /\ ImpactIdle /\ OthersIdle

Next == EnterDay \/ FoldRecord \/ FoldRaises \/ Finish

Spec == Init /\ [][Next]_vars

\* ----------------------------------------------- properties of the fold
Positions ==
    UNION { { <<d, i>> : i \in 1..Len(data[d]) } : d \in 1..Len(data) }

RecordAt(p) == data[p[1]][p[2]]

RecordCount == Cardinality(Positions)

\* Every (value, provenance) a close-approach event of the batch offers the
\* closest tracker / the fastest tracker, and every one a record offers the
\* largest tracker.  Only used where no record raises.
MissCandidates ==
    UNION { { [distance     |-> Fin(Float(RecordAt(p).events[k].miss[1])[1]),
               name         |-> NameOf(RecordAt(p)),
               date         |-> Get(RecordAt(p).events[k].date, ""),
               is_hazardous |-> IsHazardous(RecordAt(p))]
              : k \in { j \in 1..Len(RecordAt(p).events) : RecordAt(p).events[j].miss # None } }
            : p \in Positions }

VelocityCandidates ==
    UNION { { [velocity |-> Float(RecordAt(p).events[k].vel[1])[1],
               name     |-> NameOf(RecordAt(p)),
               date     |-> Get(RecordAt(p).events[k].date, "")]
              : k \in { j \in 1..Len(RecordAt(p).events) : RecordAt(p).events[j].vel # None } }
            : p \in Positions }

DiameterCandidates ==
    { [diameter     |-> RecordAt(p).diam.max[1].v,
       name         |-> NameOf(RecordAt(p)),
       is_hazardous |-> IsHazardous(RecordAt(p))]
      : p \in { q \in Positions : RecordAt(q).diam.max # None } }

\* C1 (as claimed): the batch aggregation never fails, whatever the batch;
\* a malformed record is skipped and the rest is aggregated.
C1_NeverFails == pc # "error"

\* C2 (as claimed): after the fold each tracker holds the true extremum of
\* the batch together with the provenance of a candidate that attains it.
C2_Original ==
    pc = "done" =>
        /\ MissCandidates # {} =>
             /\ closest_approach \in MissCandidates
             /\ \A o \in MissCandidates : closest_approach.distance.v <= o.distance.v
        /\ VelocityCandidates # {} =>
             /\ fastest_asteroid \in VelocityCandidates
             /\ \A o \in VelocityCandidates : o.velocity <= fastest_asteroid.velocity
        /\ DiameterCandidates # {} =>
             /\ largest_asteroid \in DiameterCandidates
             /\ \A o \in DiameterCandidates : o.diameter <= largest_asteroid.diameter

\* C2 (amended): after a fold that returns, closest.distance is the minimum
\* miss distance of the batch and closest carries the provenance of an event
\* attaining it; fastest.velocity and largest.diameter are the maximum
\* velocity and the maximum max-diameter, and the tracker carries the
\* provenance of a candidate attaining the maximum when that maximum is
\* greater than 0; when the maximum is 0 the tracker keeps its initial empty
\* name and date and false hazard flag.
C2_Extrema ==
    pc = "done" =>
        /\ MissCandidates # {} =>
             /\ closest_approach \in MissCandidates
             /\ \A o \in MissCandidates : closest_approach.distance.v <= o.distance.v
        /\ VelocityCandidates # {} =>
             /\ \A o \in VelocityCandidates : o.velocity <= fastest_asteroid.velocity
             /\ IF fastest_asteroid.velocity > 0
                THEN fastest_asteroid \in VelocityCandidates
                ELSE /\ \E o \in VelocityCandidates : o.velocity = 0
                     /\ fastest_asteroid = [velocity |-> 0, name |-> "", date |-> ""]
        /\ DiameterCandidates # {} =>
             /\ \A o \in DiameterCandidates : o.diameter <= largest_asteroid.diameter
             /\ IF largest_asteroid.diameter > 0
                THEN largest_asteroid \in DiameterCandidates
                ELSE /\ \E o \in DiameterCandidates : o.diameter = 0
                     /\ largest_asteroid =
                            [diameter |-> 0, name |-> "", is_hazardous |-> FALSE]

\* Witness of C2: a returned fold of a batch with several distinct candidates
\* for each tracker, none of the maxima being 0.
C2_Witness ==
    /\ pc = "done"
    /\ Cardinality({ c.distance : c \in MissCandidates }) >= 2
    /\ Cardinality({ c.velocity : c \in VelocityCandidates }) >= 2
    /\ fastest_asteroid.velocity > 0
    /\ largest_asteroid.diameter > 0

\* The close-approach events of the batch by place <<day, record, event>>
\* and the records by place <<day, record>>, in the order the loops of
\* lines 559-609 visit them.
EventPositions ==
    UNION { { <<p[1], p[2], k>> : k \in 1..Len(RecordAt(p).events) } : p \in Positions }

EventOf(e) == data[e[1]][e[2]].events[e[3]]

VisitedBefore(a, b) ==
    \/ a[1] < b[1]
    \/ a[1] = b[1] /\ a[2] < b[2]
    \/ a[1] = b[1] /\ a[2] = b[2] /\ Len(a) = 3 /\ a[3] < b[3]

FirstVisited(S) == CHOOSE a \in S : \A b \in S : b = a \/ VisitedBefore(a, b)

MissOf(e) == Float(EventOf(e).miss[1])[1]

VelocityOf(e) == Float(EventOf(e).vel[1])[1]

\* The events attaining the least miss distance, those attaining the
\* greatest velocity, and the records attaining the greatest max diameter.
ClosestEvents ==
    LET having == { e \in EventPositions : EventOf(e).miss # None }
    IN  { e \in having : \A o \in having : MissOf(e) <= MissOf(o) }

FastestEvents ==
    LET having == { e \in EventPositions : EventOf(e).vel # None }
    IN  { e \in having : \A o \in having : VelocityOf(o) <= VelocityOf(e) }

LargestRecords ==
    LET having == { p \in Positions : RecordAt(p).diam.max # None }
    IN  { p \in having :
            \A o \in having : RecordAt(o).diam.max[1].v <= RecordAt(p).diam.max[1].v }

C3_BucketsPartition ==
    pc = "done" =>
        LET r == result[1]
            sum == r.size_distribution["small"] + r.size_distribution["medium"]
                   + r.size_distribution["large"] + r.size_distribution["very_large"]
                   + r.size_distribution["unknown"]
        IN  /\ DOMAIN r.size_distribution = Categories
            /\ sum = r.total_asteroids
            /\ sum = RecordCount

\* Witness of C3: a returned fold of two records that fall in two buckets,
\* one of them unknown.
C3_Witness ==
    /\ pc = "done"
    /\ result[1].total_asteroids = 2
    /\ result[1].size_distribution["unknown"] = 1
    /\ result[1].size_distribution["large"] = 1

\* The bucket C4 claims for a record.
ClaimedBucket(asteroid) ==
    IF asteroid.diam.max = None THEN "unknown"
    ELSE LET d == asteroid.diam.max[1].v
         IN  IF d < 100 THEN "small"
             ELSE IF 100 <= d /\ d < 500 THEN "medium"
             ELSE IF 500 <= d /\ d < 1000 THEN "large"
             ELSE "very_large"

\* C4 (as claimed): every folded record raises exactly the bucket its max
\* diameter decides, a record with no max diameter value raises unknown and
\* no other bucket, and a record without a hazard flag leaves
\* hazardous_count alone.
C4_BucketByDiameter ==
    [][ (pc = "loop" /\ pos' = pos + 1) =>
          LET asteroid == data[day][pos + 1]
          IN  /\ size_categories' =
                    [size_categories EXCEPT ![ClaimedBucket(asteroid)] = @ + 1]
              /\ asteroid.haz = None => hazardous_count' = hazardous_count ]_vars

\* C5 (as claimed): the returned closest-approach distance is never
\* infinite, in km or in lunar distances.
C5_NoInfinity ==
    pc = "done" =>
        /\ ~result[1].closest_approach.distance_km.inf
        /\ ~result[1].closest_approach.distance_lunar.inf

\* C6: a batch without records is aggregated without an error, and the
\* result has zero counts, a zero percentage, five zero buckets and the
\* trackers at their initial values with empty names.
C6_EmptyBatch ==
    RecordCount = 0 =>
        /\ pc # "error"
        /\ pc = "done" =>
             LET r == result[1]
             IN  /\ r.total_asteroids = 0
                 /\ r.hazardous_asteroids = 0
                 /\ r.hazardous_percentage = 0
                 /\ DOMAIN r.size_distribution = Categories
                 /\ \A c \in Categories : r.size_distribution[c] = 0
                 /\ closest_approach =
                      [distance |-> PosInf, name |-> "", date |-> "", is_hazardous |-> FALSE]
                 /\ r.closest_approach.distance_km = PosInf
                 /\ r.closest_approach.name = "" /\ r.closest_approach.date = ""
                 /\ ~r.closest_approach.is_hazardous
                 /\ r.fastest_asteroid =
                      [velocity_kmh |-> 0, velocity_kms |-> 0, name |-> "", date |-> ""]
                 /\ r.largest_asteroid =
                      [diameter_km |-> 0, name |-> "", is_hazardous |-> FALSE]

\* Witness of C6: the fold of a feed of two days without records returned.
C6_Witness == pc = "done" /\ Len(data) = 2 /\ RecordCount = 0

\* ------------------------------------------------- parse_asteroid_summary
\* Python truth of a looked-up diameter bound: absent (None), null and 0.0
\* are false.
Truthy(o) == o # None /\ o[1].t = "num" /\ o[1].v # 0

\* A dict is true when it has a key.
EventTruthy(approach) ==
    approach.miss # None \/ approach.vel # None \/ approach.date # None

\* key=lambda x: float(x.get("miss_distance", {}).get("kilometers", float('inf')))
\* None == the conversion raised.
MissKey(x) ==
    IF x.miss = None THEN Some(PosInf)
    ELSE LET f == Float(x.miss[1])
         IN  IF f = None THEN None ELSE Some(Fin(f[1]))

\* Mutant of KeyLess: a later event with an equal key replaces the best one.
KeyLessOrEqual(a, b) == ~FLt(b, a)

\* The comparison min() makes: a later item replaces the best one only when
\* its key is smaller.
KeyLess(a, b) == FLt(a, b)

\* min(close_approaches, key=...): the index of the item min() returns among
\* the first k items.
RECURSIVE MinIndex(_, _)
MinIndex(close_approaches, k) ==
    IF k = 1 THEN 1
    ELSE LET best == MinIndex(close_approaches, k - 1)
         IN  IF KeyLess(MissKey(close_approaches[k])[1], MissKey(close_approaches[best])[1])
             THEN k ELSE best

KeyRaises(asteroid) ==
    \E k \in 1..Len(asteroid.events) : MissKey(asteroid.events[k]) = None

\* closest_approach of lines 188-194: None when the list is empty.
ClosestApproachOf(asteroid) ==
    IF Len(asteroid.events) = 0 THEN None
    ELSE Some(asteroid.events[MinIndex(asteroid.events, Len(asteroid.events))])

\* Lines 197-205.  The midpoint of two bounds is exact in the model: the
\* bounds of the inputs are even numbers of thousandths.
DiameterKm(asteroid) ==
    LET diameter_max == asteroid.diam.max
        diameter_min == asteroid.diam.min
    IN  IF asteroid.diam = NoDiameter THEN None
        ELSE IF Truthy(diameter_max) /\ Truthy(diameter_min)
             THEN Some((diameter_max[1].v + diameter_min[1].v) \div 2)
        ELSE IF Truthy(diameter_max) THEN Some(diameter_max[1].v)
        ELSE None

\* if closest_approach: (an event was selected and it is not the empty dict)
HasApproach(asteroid) ==
    ClosestApproachOf(asteroid) # None /\ EventTruthy(ClosestApproachOf(asteroid)[1])

\* float(velocity_data.get("kilometers_per_hour", 0)) and
\* float(distance_data.get("kilometers", 0)) of the selected event.
SelectedVelocity(asteroid) == Float(Get(ClosestApproachOf(asteroid)[1].vel, JNum(0)))

SelectedDistance(asteroid) == Float(Get(ClosestApproachOf(asteroid)[1].miss, JNum(0)))

\* Mutant of IdMissing: the name is read with asteroid_data["name"] too.
IdOrNameMissing(asteroid) == asteroid.id = None \/ asteroid.name = None

\* asteroid_data["id"] raises KeyError.
IdMissing(asteroid) == asteroid.id = None

\* What raises, in the order the function runs.
ParseRaises(asteroid) ==
    IF KeyRaises(asteroid) THEN TRUE
    ELSE IF HasApproach(asteroid)
            /\ (SelectedVelocity(asteroid) = None \/ SelectedDistance(asteroid) = None)
         THEN TRUE
    ELSE IdMissing(asteroid)

SummaryOf(asteroid) ==
    [id               |-> asteroid.id[1],
     name             |-> Get(asteroid.name, "Unknown"),
     diameter_km      |-> DiameterKm(asteroid),
     velocity_kmh     |-> IF HasApproach(asteroid) THEN SelectedVelocity(asteroid) ELSE None,
     miss_distance_km |-> IF HasApproach(asteroid) THEN SelectedDistance(asteroid) ELSE None,
     is_hazardous     |-> Get(asteroid.haz, FALSE),
     approach_date    |-> IF HasApproach(asteroid)
                          THEN ClosestApproachOf(asteroid)[1].date ELSE None]

\* The raw records handed to the parser.
ParseDiameters ==
    { [min |-> mn, max |-> mx]
        : mn \in {None, Some(JNum(0)), Some(JNum(40)), Some(JNum(100))},
          mx \in {None, Some(JNull), Some(JNum(0)), Some(JNum(60)), Some(JNum(200))} }

ParseRecords ==
    { [id |-> i, name |-> n.name, haz |-> n.haz, diam |-> d, events |-> ev]
        : i \in {None, Some("3542519")}, n \in Idents, d \in ParseDiameters,
          ev \in EventLists }

ParseInit ==
    /\ asteroid_data \in ParseRecords
    /\ ppc = "call"
    /\ summary = None

ParseReturns ==
    /\ ppc = "call"
    /\ ~ParseRaises(asteroid_data)
    /\ summary' = Some(SummaryOf(asteroid_data))
    /\ ppc' = "returned"
    /\ UNCHANGED <<asteroid_data, foldVars, impactVars, simVars, routeVars>>

\* except Exception: log and re-raise.
ParseFails ==
    /\ ppc = "call"
    /\ ParseRaises(asteroid_data)
    /\ ppc' = "raised"
    /\ UNCHANGED <<asteroid_data, summary, foldVars, impactVars, simVars, routeVars>>

NextParse == ParseReturns \/ ParseFails

InitParse == FoldIdle /\ ParseInit /\ ImpactIdle /\ OthersIdle

SpecParse == InitParse /\ [][NextParse]_vars

\* --------------------------------------------- properties of the parser
IsNumber(o) == o # None /\ o[1].t = "num"

\* C7 (as claimed): with both diameter bounds present the summary's
\* diameter_km is exactly (min + max) / 2, a bound equal to 0 included; with
\* min absent it is max; with neither present it is unset.
C7_Midpoint ==
    ppc = "returned" =>
        LET mn == asteroid_data.diam.min
            mx == asteroid_data.diam.max
        IN  /\ IsNumber(mn) /\ IsNumber(mx) =>
                 summary[1].diameter_km = Some((mn[1].v + mx[1].v) \div 2)
            /\ mn = None /\ IsNumber(mx) => summary[1].diameter_km = Some(mx[1].v)
            /\ mn = None /\ mx = None => summary[1].diameter_km = None

\* C8: the summary takes velocity_kmh, miss_distance_km and approach_date
\* from the event of minimum miss distance (an event without one counting as
\* +infinity), the first such event in list order; without events all three
\* are unset.
C8_ClosestEvent ==
    ppc = "returned" =>
        LET ev == asteroid_data.events
            s  == summary[1]
            key(j) == MissKey(ev[j])[1]
        IN  IF ev = <<>>
            THEN s.velocity_kmh = None /\ s.miss_distance_km = None /\ s.approach_date = None
            ELSE \E i \in 1..Len(ev) :
                    /\ \A j \in 1..Len(ev) : ~FLt(key(j), key(i))
                    /\ \A j \in 1..(i - 1) : FLt(key(i), key(j))
                    /\ ev[i].miss # None => s.miss_distance_km = Float(ev[i].miss[1])
                    /\ ev[i].vel # None => s.velocity_kmh = Float(ev[i].vel[1])
                    /\ ev[i].date # None => s.approach_date = ev[i].date

\* Witness of C8: two events share the minimum miss distance, and the summary
\* carries the date and the velocity of the first, which differ from the
\* second's.
C8_Witness ==
    /\ ppc = "returned"
    /\ Len(asteroid_data.events) = 2
    /\ asteroid_data.events[1].miss = Some(JStr(S500))
    /\ asteroid_data.events[2].miss = Some(JStr(S500))
    /\ asteroid_data.events[1].vel # asteroid_data.events[2].vel
    /\ summary[1].approach_date = asteroid_data.events[1].date
    /\ summary[1].velocity_kmh = Float(asteroid_data.events[1].vel[1])
    /\ summary[1].miss_distance_km = Some(500)

\* Every value present in the record has the type the feed gives it.
WellTyped(asteroid) ==
    \A k \in 1..Len(asteroid.events) :
        /\ asteroid.events[k].miss # None => Float(asteroid.events[k].miss[1]) # None
        /\ asteroid.events[k].vel # None => Float(asteroid.events[k].vel[1]) # None

LocalBelow    == 1000
RegionalBelow == 100000
NationalBelow == 10000000

\* Mutant of DamageLevel: the comparisons include the threshold.
DamageLevelInclusive(energy) ==
    IF energy <= LocalBelow
    THEN "Local damage, buildings destroyed within blast radius"
    ELSE IF energy <= RegionalBelow
    THEN "Regional catastrophe, severe damage across metropolitan area"
    ELSE IF energy <= NationalBelow
    THEN "National disaster, continent-wide effects"
    ELSE "Global catastrophe, mass extinction event"

DamageLevel(energy) ==
    IF energy < LocalBelow
    THEN "Local damage, buildings destroyed within blast radius"
    ELSE IF energy < RegionalBelow
    THEN "Regional catastrophe, severe damage across metropolitan area"
    ELSE IF energy < NationalBelow
    THEN "National disaster, continent-wide effects"
    ELSE "Global catastrophe, mass extinction event"

\* The energies tried: around 0 and around each threshold.
Energies ==
    (0..Spread)
    \cup UNION { (t - Spread)..(t + Spread) : t \in {LocalBelow, RegionalBelow, NationalBelow} }

ImpactInit ==
    /\ energy_megatons \in Energies
    /\ ipc = "call"
    /\ damage_level = None

ChooseDamageLevel ==
    /\ ipc = "call"
    /\ damage_level' = Some(DamageLevel(energy_megatons))
    /\ ipc' = "returned"
    /\ UNCHANGED <<energy_megatons, foldVars, parseVars, simVars, routeVars>>

NextImpact == ChooseDamageLevel

InitImpact == FoldIdle /\ ParseIdle /\ ImpactInit /\ OthersIdle

SpecImpact == InitImpact /\ [][NextImpact]_vars

\* C10: damage_assessment.overall is the local tier for E < 1 Mt, the
\* regional tier for 1 <= E < 100, the national tier for 100 <= E < 10000
\* and the global tier for E >= 10000: one tier for every energy, each
\* threshold belonging to the upper tier.
C10_DamageTier ==
    ipc = "returned" =>
        LET E == energy_megatons
            tier == damage_level[1]
        IN  /\ (E < 1000) <=>
                 tier = "Local damage, buildings destroyed within blast radius"
            /\ (1000 <= E /\ E < 100000) <=>
                 tier = "Regional catastrophe, severe damage across metropolitan area"
            /\ (100000 <= E /\ E < 10000000) <=>
                 tier = "National disaster, continent-wide effects"
            /\ (10000000 <= E) <=>
                 tier = "Global catastrophe, mass extinction event"

\* Witness of C10: an energy of exactly 100 Mt was given the national tier.
C10_Witness ==
    /\ ipc = "returned"
    /\ energy_megatons = 100000
    /\ damage_level = Some("National disaster, continent-wide effects")

\* ----------------- calculate_impact_simulation: the energy and the result
\* Units: diameter in units of 10 m (0.01 km), velocity in km/s, the local
\* energy_megatons in 1/1000 Mt, the reported energy_megatons in 1/100 Mt.
MaxDiameter == 6
MaxVelocity == 20

\* floor(x * a / b) without an intermediate product beyond 32 bits.
MulDiv(x, a, b) == a * (x \div b) + (a * (x % b)) \div b

\* Lines 236-246 compute
\*   0.5 * ((4/3) * pi * (diameter_m / 2)^3 * 2600) * velocity_ms^2 / 4.184e15
\* with diameter_m = 10 * diameter and velocity_ms = 1000 * velocity_kms,
\* which in 1/1000 Mt is (650 * pi / 12552) * diameter^3 * velocity_kms^2.
\* 650 * pi / 12552 = 0.162686044..., and 470 / 2889 = 0.162686050...
EnergyNum == 470
EnergyDen == 2889

\* Mutant of EnergyMegatons: the velocity is not squared.
EnergyMegatonsLinear(diameter, velocity_kms) ==
    MulDiv(diameter * diameter * diameter * velocity_kms, EnergyNum, EnergyDen)

\* Mutant of EnergyMegatons: the mass is divided by the squared velocity.
EnergyMegatonsDivided(diameter, velocity_kms) ==
    MulDiv((diameter * diameter * diameter) \div (velocity_kms * velocity_kms),
           EnergyNum, EnergyDen)

EnergyMegatons(diameter, velocity_kms) ==
    MulDiv(diameter * diameter * diameter * velocity_kms * velocity_kms,
           EnergyNum, EnergyDen)

\* round(energy_megatons, 2) of line 286, from 1/1000 Mt to 1/100 Mt.  The
\* energy is an irrational multiple of an integer, never exactly halfway
\* between two hundredths, so the nearest hundredth is decided by the
\* thousandths digit alone.
RoundEnergy2(energy) == (energy + 5) \div 10

\* The fields of the SimulationResult that depend on the energy alone.
SimulationOf(p) ==
    LET energy == EnergyMegatons(p.diameter, p.velocity_kms)
    IN  [energy_megatons |-> RoundEnergy2(energy),
         overall         |-> DamageLevel(energy)]

\* Diameters from 0.01 km upwards and 1 km; whole velocities from 1 km/s.
Diameters == (1..MaxDiameter) \cup {100}
Velocities == 1..MaxVelocity
Angles == {45, 90}
Compositions == {"rocky", "iron"}

SimulationInput ==
    [diameter : Diameters, velocity_kms : Velocities,
     angle_degrees : Angles, composition : Compositions]

SimulationInit ==
    /\ params \in SimulationInput
    /\ spc = "call"
    /\ simulation = None

Simulate ==
    /\ spc = "call"
    /\ simulation' = Some(SimulationOf(params))
    /\ spc' = "returned"
    /\ UNCHANGED <<params, foldVars, parseVars, impactVars, routeVars>>

NextSimulation == Simulate

InitSimulation == FoldIdle /\ ParseIdle /\ ImpactIdle /\ SimulationInit /\ RouteIdle

SpecSimulation == InitSimulation /\ [][NextSimulation]_vars

\* The scenario diameter_km = 1.0, velocity_kms = 20, angle_degrees = 45,
\* composition = "rocky" has returned.
ScenarioReturned ==
    /\ spc = "returned"
    /\ params.diameter = 100
    /\ params.velocity_kms = 20
    /\ params.angle_degrees = 45
    /\ params.composition = "rocky"

\* C11 as stated: for diameter_km = 1.0, velocity_kms = 20, angle 45 and
\* composition "rocky" the reported energy_megatons is about 2.2*10^4 Mt
\* (here 21500 to 22500 Mt) and the overall damage is the national tier.
C11_Original ==
    ScenarioReturned =>
        /\ simulation[1].energy_megatons \in 2150000..2250000
        /\ simulation[1].overall = "National disaster, continent-wide effects"

\* C11, amended: for diameter_km = 1.0, velocity_kms = 20, angle 45 and
\* composition "rocky" the reported energy_megatons is about 6.5*10^4 Mt
\* (here 64500 to 65500 Mt), which is beyond the 10000 Mt threshold, and
\* the overall damage is the global tier.
C11_Scenario ==
    ScenarioReturned =>
        /\ simulation[1].energy_megatons \in 6450000..6550000
        /\ simulation[1].overall = "Global catastrophe, mass extinction event"

\* Witness of C11: the scenario has returned with 65074.42 Mt.
C11_Witness ==
    /\ ScenarioReturned
    /\ simulation[1].energy_megatons = 6507442

\* The energy reported for the parameters of the call with another diameter
\* or another velocity.
ReportedWithDiameter(diameter) ==
    SimulationOf([params EXCEPT !.diameter = diameter]).energy_megatons

ReportedWithVelocity(velocity_kms) ==
    SimulationOf([params EXCEPT !.velocity_kms = velocity_kms]).energy_megatons

\* C12 as stated: with the velocity held fixed a larger diameter, and with
\* the diameter held fixed a larger velocity, always yields a larger
\* reported energy_megatons.
C12_Original ==
    spc = "returned" =>
        /\ \A diameter \in Diameters :
               diameter > params.diameter =>
                   ReportedWithDiameter(diameter) > simulation[1].energy_megatons
        /\ \A velocity_kms \in Velocities :
               velocity_kms > params.velocity_kms =>
                   ReportedWithVelocity(velocity_kms) > simulation[1].energy_megatons

\* C12, amended: with the velocity held fixed a larger diameter, and with
\* the diameter held fixed a larger velocity, never yields a smaller
\* reported energy_megatons; the reported value is rounded to two decimals,
\* so it can be the same for two different inputs.
C12_Monotone ==
    spc = "returned" =>
        /\ \A diameter \in Diameters :
               diameter > params.diameter =>
                   ReportedWithDiameter(diameter) >= simulation[1].energy_megatons
        /\ \A velocity_kms \in Velocities :
               velocity_kms > params.velocity_kms =>
                   ReportedWithVelocity(velocity_kms) >= simulation[1].energy_megatons

\* Witness of C12: 0.02 km at 1 km/s has returned 0.0 Mt; 0.03 km at the
\* same velocity reports 0.0 Mt as well and 0.04 km reports 0.01 Mt.
C12_Witness ==
    /\ spc = "returned"
    /\ params.diameter = 2
    /\ params.velocity_kms = 1
    /\ simulation[1].energy_megatons = 0
    /\ ReportedWithDiameter(3) = 0
    /\ ReportedWithDiameter(4) = 1

\* ------------------------------------------- api_router: route dispatch
\* A path is the sequence of its segments below the prefix /api; a route's
\* path may hold the parameter segment "{asteroid_id}".
MaxSegments == 2

\* The routes in the order their decorators register them (lines 295-537).
Routes ==
    << [method |-> "GET",  path |-> <<>>,                             endpoint |-> "root"],
       [method |-> "GET",  path |-> <<"health">>,                     endpoint |-> "health_check"],
       [method |-> "GET",  path |-> <<"asteroids", "feed">>,          endpoint |-> "get_asteroid_feed"],
       [method |-> "GET",  path |-> <<"asteroids", "{asteroid_id}">>, endpoint |-> "get_asteroid_details"],
       [method |-> "GET",  path |-> <<"asteroids", "browse">>,        endpoint |-> "browse_asteroids"],
       [method |-> "GET",  path |-> <<"asteroids", "hazardous">>,     endpoint |-> "get_hazardous_asteroids"],
       [method |-> "POST", path |-> <<"simulation", "impact">>,       endpoint |-> "simulate_impact"],
       [method |-> "GET",  path |-> <<"mitigation", "strategies">>,   endpoint |-> "get_mitigation_strategies"],
       [method |-> "GET",  path |-> <<"statistics", "dashboard">>,    endpoint |-> "get_dashboard_statistics"] >>

\* An "{asteroid_id}: str" parameter matches any one segment.
SegmentMatches(pattern, segment) ==
    IF pattern = "{asteroid_id}" THEN TRUE ELSE pattern = segment

PathMatches(pattern, path) ==
    /\ Len(pattern) = Len(path)
    /\ \A k \in 1..Len(pattern) : SegmentMatches(pattern[k], path[k])

\* The router tries the routes in registration order and the first whose
\* path and method both match handles the request; if only paths match the
\* answer is 405, if none does 404.
Dispatch(req) ==
    LET full == { k \in 1..Len(Routes) :
                    PathMatches(Routes[k].path, req.path)
                    /\ Routes[k].method = req.method }
        partial == { k \in 1..Len(Routes) : PathMatches(Routes[k].path, req.path) }
    IN  IF full # {}
        THEN Routes[CHOOSE k \in full : \A j \in full : k <= j].endpoint
        ELSE IF partial # {} THEN "405 Method Not Allowed"
        ELSE "404 Not Found"

\* The endpoints root() advertises (lines 302-310) that have a fixed path,
\* each with the method and function of its own decorator.
Advertised ==
    { [method |-> "GET",  path |-> <<"asteroids", "feed">>,        endpoint |-> "get_asteroid_feed"],
      [method |-> "GET",  path |-> <<"asteroids", "hazardous">>,   endpoint |-> "get_hazardous_asteroids"],
      [method |-> "GET",  path |-> <<"asteroids", "browse">>,      endpoint |-> "browse_asteroids"],
      [method |-> "POST", path |-> <<"simulation", "impact">>,     endpoint |-> "simulate_impact"],
      [method |-> "GET",  path |-> <<"mitigation", "strategies">>, endpoint |-> "get_mitigation_strategies"],
      [method |-> "GET",  path |-> <<"statistics", "dashboard">>,  endpoint |-> "get_dashboard_statistics"] }

Segments ==
    { "asteroids", "feed", "browse", "hazardous", "3542519", "simulation", "impact",
      "mitigation", "strategies", "statistics", "dashboard", "health" }

Requests ==
    [method : {"GET", "POST"},
     path   : UNION { [1..n -> Segments] : n \in 0..MaxSegments }]

RouteInit ==
    /\ request \in Requests
    /\ rpc = "received"
    /\ handler = None

DispatchRequest ==
    /\ rpc = "received"
    /\ handler' = Some(Dispatch(request))
    /\ rpc' = "dispatched"
    /\ UNCHANGED <<request, foldVars, parseVars, impactVars, simVars>>

NextRoute == DispatchRequest

InitRoute == FoldIdle /\ ParseIdle /\ ImpactIdle /\ SimulationIdle /\ RouteInit

SpecRoute == InitRoute /\ [][NextRoute]_vars

\* C14 (as claimed): a request for an endpoint path advertised by the API
\* root is dispatched to that endpoint's own handler; in particular GET
\* /api/asteroids/browse to browse_asteroids and GET /api/asteroids/hazardous
\* to get_hazardous_asteroids, not to get_asteroid_details.
C14_OwnHandler ==
    rpc = "dispatched" =>
        \A a \in Advertised :
            (a.method = request.method /\ a.path = request.path)
                => handler = Some(a.endpoint)
====
